---- MODULE Spec2Model ----
(***************************************************************************)
(* hashmap-entry-ownable: HashMap::entry_ownable(&Q) and the Entry cursor  *)
(* (or_insert, or_insert_with, and_modify, or_default) of src/lib.rs,      *)
(* together with a caller that drives one call chain at a time.            *)
(*                                                                         *)
(* Keys: the borrowed form Q (&str) is a lower-case string, the owned form *)
(* K (String) the upper-case one; to_owned and borrow convert between      *)
(* them.  Values: V is u32 (0..MaxVal) or Option<u32>, where None is       *)
(* NoneVal and Some(n) is n.                                               *)
(***************************************************************************)
EXTENDS Integers, Sequences, FiniteSets, TLC

\* ------------------------------------------------------------------ bounds
MaxVal == 3
MaxMods == 2
MaxLen == 6
NumBuckets == 2

\* ------------------------------------------------------------ key / value
\* Keys the caller passes to entry_ownable, and one it never does.
BorrowedKeys == {"a", "b", "c"}
NeverInserted == "z"
NoSlot == "-"

\* <Q as ToOwned>::to_owned: &str -> String
to_owned(q) ==
    CASE q = "a" -> "A"
      [] q = "b" -> "B"
      [] q = "c" -> "C"
      [] q = "z" -> "Z"

\* <K as Borrow<Q>>::borrow: String -> &str
borrow(k) ==
    CASE k = "A" -> "a"
      [] k = "B" -> "b"
      [] k = "C" -> "c"
      [] k = "Z" -> "z"

KeyCode(q) ==
    CASE q = "a" -> 1
      [] q = "b" -> 2
      [] q = "c" -> 3
      [] q = "z" -> 4

\* Hash of the borrowed form under the map's BuildHasher.
hash_borrowed(q) == KeyCode(q) % NumBuckets

\* Hash of the owned form: "Hash and Eq on the borrowed form must match
\* those for the key type".
hash_owned(k) == hash_borrowed(borrow(k))

VTypes == {"u32", "opt"}
NoneVal == -1

Values(vt) == IF vt = "u32" THEN 0..MaxVal ELSE {NoneVal} \cup (0..MaxVal)

\* <V as Default>::default()
Default(vt) == IF vt = "u32" THEN 0 ELSE NoneVal

\* Closures handed to and_modify or applied through the returned &mut V.
Mutators == {"inc", "dbl"}

apply(f, v) ==
    IF v = NoneVal THEN NoneVal
    ELSE IF f = "inc" THEN v + 1 ELSE v * 2

\* A factory closure || s capturing the value it yields.
Factories(vt) == [captured : Values(vt)]

call(F) == F.captured

\* --------------------------------------------------------------- the map
EmptyMap == [k \in {} |-> 0]

\* HashMap::get by borrowed key: Some(v) is <<v>>, None is <<>>.
get(m, q) ==
    LET hit == {k \in DOMAIN m : hash_owned(k) = hash_borrowed(q) /\ borrow(k) = q}
    IN  IF hit # {} THEN <<m[CHOOSE k \in hit : TRUE]>> ELSE <<>>

\* Mutant: the probe never finds the key.
from_key_miss(m, q) == [tag |-> "Vacant", slot |-> NoSlot]

\* RawEntryBuilderMut::from_key: hash the borrowed key, probe once.
from_key(m, q) ==
    LET h == hash_borrowed(q)
        hit == {k \in DOMAIN m : hash_owned(k) = h /\ borrow(k) = q}
    IN  IF hit # {}
        THEN [tag |-> "Occupied", slot |-> CHOOSE k \in hit : TRUE]
        ELSE [tag |-> "Vacant", slot |-> NoSlot]

\* Mutant: the key is cloned up front, as HashMap::entry(key.to_owned()) needs.
entry_ownable_eager(m, q) ==
    [entry |-> [key |-> q, raw |-> from_key(m, q)], map |-> m, owned |-> 1,
     hashed |-> <<[form |-> "borrowed", key |-> q, hash |-> hash_borrowed(q)]>>,
     probed |-> 1]

\* entry_ownable: Entry { key, raw: self.raw_entry_mut().from_key(key) };
\* the map is only borrowed and the key only referenced; from_key hashes
\* the borrowed key and looks it up, once.
entry_ownable(m, q) ==
    [entry |-> [key |-> q, raw |-> from_key(m, q)], map |-> m, owned |-> 0,
     hashed |-> <<[form |-> "borrowed", key |-> q, hash |-> hash_borrowed(q)]>>,
     probed |-> 1]

\* Mutant: RawVacantEntryMut::insert_hashed_nocheck, which takes the hash
\* instead of computing it.
insert_hashed_nocheck(m, k, v) ==
    [map |-> [x \in DOMAIN m \cup {k} |-> IF x = k THEN v ELSE m[x]],
     slot |-> k,
     hashed |-> <<>>]

\* RawVacantEntryMut::insert(key, value): K: Hash, S: BuildHasher; hashes
\* the owned key and stores the pair; yields (&mut K, &mut V).
insert(m, k, v) ==
    [map |-> [x \in DOMAIN m \cup {k} |-> IF x = k THEN v ELSE m[x]],
     slot |-> k,
     hashed |-> <<[form |-> "owned", key |-> k, hash |-> hash_owned(k)]>>]

\* Outcome of a call on the cursor: the map afterwards, the slot the
\* returned &mut V designates, and what the call did on the way.
Outcome(m, slot, owned, made, hashed) ==
    [map |-> m, slot |-> slot, owned |-> owned, made |-> made, hashed |-> hashed]

\* Mutant: the key is made owned to test the slot and again to insert.
or_insert_rekey(e, m, default) ==
    IF e.raw.tag = "Occupied"
    THEN Outcome(m, e.raw.slot, 0, 0, <<>>)
    ELSE LET r == insert(m, to_owned(e.key), default)
         IN  Outcome(r.map, r.slot, 2, 0, r.hashed)

\* Mutant: the vacant slot is filled with zero, not with the default given.
or_insert_zero(e, m, default) ==
    IF e.raw.tag = "Occupied"
    THEN Outcome(m, e.raw.slot, 0, 0, <<>>)
    ELSE LET r == insert(m, to_owned(e.key), 0)
         IN  Outcome(r.map, r.slot, 1, 0, r.hashed)

\* Mutant: an occupied slot is overwritten with the default.
or_insert_overwrite(e, m, default) ==
    IF e.raw.tag = "Occupied"
    THEN Outcome([m EXCEPT ![e.raw.slot] = default], e.raw.slot, 0, 0, <<>>)
    ELSE LET r == insert(m, to_owned(e.key), default)
         IN  Outcome(r.map, r.slot, 1, 0, r.hashed)

\* match self.raw { Occupied(e) => e.into_mut(),
\*                  Vacant(e) => e.insert(self.key.to_owned(), default).1 }
or_insert(e, m, default) ==
    IF e.raw.tag = "Occupied"
    THEN Outcome(m, e.raw.slot, 0, 0, <<>>)
    ELSE LET r == insert(m, to_owned(e.key), default)
         IN  Outcome(r.map, r.slot, 1, 0, r.hashed)

\* Mutant: default() is evaluated before the match.
or_insert_with_eager(e, m, F) ==
    IF e.raw.tag = "Occupied"
    THEN Outcome(m, e.raw.slot, 0, 1, <<>>)
    ELSE LET r == insert(m, to_owned(e.key), call(F))
         IN  Outcome(r.map, r.slot, 1, 1, r.hashed)

\* As or_insert, with default() called in the Vacant arm only.
or_insert_with(e, m, F) ==
    IF e.raw.tag = "Occupied"
    THEN Outcome(m, e.raw.slot, 0, 0, <<>>)
    ELSE LET r == insert(m, to_owned(e.key), call(F))
         IN  Outcome(r.map, r.slot, 1, 1, r.hashed)

\* Mutant: the vacant slot is filled with a literal zero.
or_default_zero(e, m, vt) ==
    IF e.raw.tag = "Occupied"
    THEN Outcome(m, e.raw.slot, 0, 0, <<>>)
    ELSE LET r == insert(m, to_owned(e.key), 0)
         IN  Outcome(r.map, r.slot, 1, 0, r.hashed)

\* As or_insert, with Default::default() as the value.
or_default(e, m, vt) ==
    IF e.raw.tag = "Occupied"
    THEN Outcome(m, e.raw.slot, 0, 0, <<>>)
    ELSE LET r == insert(m, to_owned(e.key), Default(vt))
         IN  Outcome(r.map, r.slot, 1, 0, r.hashed)

\* Mutant: f is never invoked.
and_modify_skip(e, m, f) == [entry |-> e, map |-> m, ran |-> 0]

\* Mutant: a vacant slot is filled so that f has something to modify.
and_modify_upsert(e, m, f) ==
    IF e.raw.tag = "Occupied"
    THEN [entry |-> e, map |-> [m EXCEPT ![e.raw.slot] = apply(f, @)], ran |-> 1]
    ELSE LET r == insert(m, to_owned(e.key), 0)
         IN  [entry |-> [key |-> e.key, raw |-> [tag |-> "Occupied", slot |-> r.slot]],
              map |-> r.map, ran |-> 0]

\* and_modify: f(e.get_mut()) when Occupied, () when Vacant; returns self.
and_modify(e, m, f) ==
    IF e.raw.tag = "Occupied"
    THEN [entry |-> e, map |-> [m EXCEPT ![e.raw.slot] = apply(f, @)], ran |-> 1]
    ELSE [entry |-> e, map |-> m, ran |-> 0]

\* ----------------------------------------------------------------- state
VARIABLES
    vtype,        \* the map's value type V
    map,          \* HashMap<K, V, S>: owned key -> value
    pc,           \* caller: "idle", "entry" (cursor alive), "ref" (&mut V alive)
    entry,        \* the live Entry, or NoEntry
    ret,          \* slot the live &mut V designates, or NoSlot
    toOwned,      \* to_owned calls in the current chain
    factoryCalls, \* factory invocations in the current chain
    mutatorCalls, \* mutator invocations in the current chain
    hashLog,      \* hash computations in the current chain
    probes,       \* table lookups by key in the current chain
    pre,          \* the map when the current chain began
    created,      \* the Entry as entry_ownable returned it
    mods,         \* mutators handed to and_modify in the current chain
    lastOp,       \* the last call made
    arg,          \* value handed to (or produced for) the last terminal call
    rhyme,        \* the word list of the counting loop
    i             \* words of rhyme already counted

chain == <<toOwned, factoryCalls, mutatorCalls, hashLog, probes>>
hist == <<pre, created, mods>>
loop == <<rhyme, i>>
vars == <<vtype, map, pc, entry, ret, toOwned, factoryCalls, mutatorCalls,
          hashLog, probes, pre, created, mods, lastOp, arg, rhyme, i>>

NoEntry == [key |-> NoSlot, raw |-> [tag |-> "None", slot |-> NoSlot]]

\* HashMap::new(), no call made yet.
Fresh ==
    /\ map = EmptyMap
    /\ pc = "idle"
    /\ entry = NoEntry
    /\ ret = NoSlot
    /\ toOwned = 0
    /\ factoryCalls = 0
    /\ mutatorCalls = 0
    /\ hashLog = <<>>
    /\ probes = 0
    /\ pre = EmptyMap
    /\ created = NoEntry
    /\ mods = <<>>
    /\ lastOp = "new"
    /\ arg = NoneVal
    /\ i = 0

Init ==
    /\ vtype \in VTypes
    /\ rhyme = <<>>
    /\ Fresh

\* --------------------------------------------------------------- actions
\* map.entry_ownable(q)
CallEntryOwnable(q) ==
    /\ pc = "idle"
    /\ LET r == entry_ownable(map, q)
       IN  /\ entry' = r.entry
           /\ map' = r.map
           /\ toOwned' = r.owned
           /\ hashLog' = r.hashed
           /\ probes' = r.probed
    /\ created' = entry'
    /\ pre' = map
    /\ mods' = <<>>
    /\ factoryCalls' = 0
    /\ mutatorCalls' = 0
    /\ pc' = "entry"
    /\ lastOp' = "entry_ownable"
    /\ arg' = NoneVal
    /\ UNCHANGED <<vtype, ret>>

\* The effect of a terminal call whose outcome is o.
Finish(o, op, a) ==
    /\ map' = o.map
    /\ ret' = o.slot
    /\ toOwned' = toOwned + o.owned
    /\ factoryCalls' = factoryCalls + o.made
    /\ hashLog' = hashLog \o o.hashed
    /\ entry' = NoEntry
    /\ pc' = "ref"
    /\ lastOp' = op
    /\ arg' = a
    /\ UNCHANGED <<vtype, mutatorCalls, probes, hist>>

\* entry.or_insert(default)
CallOrInsert(default) ==
    /\ pc = "entry"
    /\ Finish(or_insert(entry, map, default), "or_insert", default)

\* entry.or_insert_with(F)
CallOrInsertWith(F) ==
    /\ pc = "entry"
    /\ Finish(or_insert_with(entry, map, F), "or_insert_with", call(F))

\* entry.or_default()
CallOrDefault ==
    /\ pc = "entry"
    /\ Finish(or_default(entry, map, vtype), "or_default", Default(vtype))

\* entry.and_modify(f)
CallAndModify(f) ==
    /\ pc = "entry"
    /\ Len(mods) < MaxMods
    /\ LET r == and_modify(entry, map, f)
       IN  /\ \A k \in DOMAIN r.map : r.map[k] <= MaxVal
           /\ entry' = r.entry
           /\ map' = r.map
           /\ mutatorCalls' = mutatorCalls + r.ran
    /\ mods' = Append(mods, f)
    /\ lastOp' = "and_modify"
    /\ UNCHANGED <<vtype, pc, ret, toOwned, factoryCalls, hashLog, probes,
                   pre, created, arg>>

\* The Entry goes out of scope without a terminal call.
DropEntry ==
    /\ pc = "entry"
    /\ entry' = NoEntry
    /\ pc' = "idle"
    /\ lastOp' = "drop"
    /\ UNCHANGED <<vtype, map, ret, chain, hist, arg>>

\* The caller writes through the returned &mut V (*counter += 1, *r *= 2),
\* which ends the borrow.
DerefUpdate(f) ==
    /\ pc = "ref"
    /\ apply(f, map[ret]) <= MaxVal
    /\ map' = [map EXCEPT ![ret] = apply(f, @)]
    /\ ret' = NoSlot
    /\ pc' = "idle"
    /\ lastOp' = "deref"
    /\ UNCHANGED <<vtype, entry, chain, hist, arg>>

\* The returned &mut V goes out of scope unused.
DropRef ==
    /\ pc = "ref"
    /\ ret' = NoSlot
    /\ pc' = "idle"
    /\ lastOp' = "dropref"
    /\ UNCHANGED <<vtype, map, entry, chain, hist, arg>>

Next ==
    \/ \E q \in BorrowedKeys : CallEntryOwnable(q) /\ UNCHANGED loop
    \/ \E v \in Values(vtype) : CallOrInsert(v) /\ UNCHANGED loop
    \/ \E F \in Factories(vtype) : CallOrInsertWith(F) /\ UNCHANGED loop
    \/ CallOrDefault /\ UNCHANGED loop
    \/ \E f \in Mutators : CallAndModify(f) /\ UNCHANGED loop
    \/ DropEntry /\ UNCHANGED loop
    \/ \E f \in Mutators : DerefUpdate(f) /\ UNCHANGED loop
    \/ DropRef /\ UNCHANGED loop

Spec == Init /\ [][Next]_vars

\* ------------------------------------------------------ the counting loop
\* for w in rhyme { let counter = words.entry_ownable(w).or_insert(0);
\*                  *counter += 1; }
RECURSIVE SeqsUpTo(_, _)
SeqsUpTo(S, n) ==
    IF n = 0 THEN {<<>>}
    ELSE LET shorter == SeqsUpTo(S, n - 1)
         IN  shorter \cup {Append(s, x) : s \in {t \in shorter : Len(t) = n - 1}, x \in S}

InitCount ==
    /\ vtype = "u32"
    /\ rhyme \in SeqsUpTo(BorrowedKeys, MaxLen)
    /\ Fresh

LoopEntry ==
    /\ i < Len(rhyme)
    /\ CallEntryOwnable(rhyme[i + 1])
    /\ UNCHANGED loop

LoopOrInsert ==
    /\ CallOrInsert(0)
    /\ UNCHANGED loop

LoopIncrement ==
    /\ DerefUpdate("inc")
    /\ i' = i + 1
    /\ UNCHANGED rhyme

NextCount == LoopEntry \/ LoopOrInsert \/ LoopIncrement

SpecCount == InitCount /\ [][NextCount]_vars

\* ---------------------------------------------------------------- claims
\* The chain's key was in the map when entry_ownable was called.
KeyPresent == to_owned(created.key) \in DOMAIN pre
KeyAbsent == created # NoEntry /\ to_owned(created.key) \notin DOMAIN pre

\* A terminal call has just returned.
Terminal == lastOp \in {"or_insert", "or_insert_with", "or_default"}

Occurrences(s, q) == Cardinality({j \in 1..Len(s) : s[j] = q})

\* C1: for a key already in the map, entry_ownable followed by or_insert or
\* or_insert_with makes no owned key (no to_owned call) and does not invoke
\* the factory.
C1_NoAllocationOnHit ==
    (lastOp \in {"or_insert", "or_insert_with"} /\ KeyPresent)
        => (toOwned = 0 /\ factoryCalls = 0)

C1_Witness ==
    /\ lastOp = "or_insert_with"
    /\ KeyPresent
    /\ pre[to_owned(created.key)] # arg

\* C2: for a key not in the map, entry_ownable, any number of and_modify
\* calls and one terminal call make the owned key exactly once over the
\* whole chain, and or_insert_with invokes its factory exactly once.
C2_SingleMaterializationOnMiss ==
    (Terminal /\ KeyAbsent)
        => /\ toOwned = 1
           /\ lastOp = "or_insert_with" => factoryCalls = 1

C2_Witness ==
    /\ lastOp = "or_insert_with"
    /\ KeyAbsent
    /\ Len(mods) = MaxMods
    /\ factoryCalls = 1

C4_InsertThenRead ==
    (lastOp = "or_insert" /\ KeyAbsent)
        => /\ get(map, created.key) = <<arg>>
           /\ ret = to_owned(created.key)
           /\ map[ret] = arg

C4_Witness ==
    /\ lastOp = "or_insert"
    /\ KeyAbsent
    /\ arg = MaxVal
    /\ get(map, created.key) = <<MaxVal>>
    /\ pre # EmptyMap

\* C5: entry_ownable(k).or_insert(v) on a key k present with value w returns
\* a reference to w and leaves the map as it was; v is not stored.
C5_ReadThrough ==
    (lastOp = "or_insert" /\ KeyPresent /\ mods = <<>>)
        => /\ map = pre
           /\ ret = to_owned(created.key)
           /\ map[ret] = pre[ret]

C5_Witness ==
    /\ lastOp = "or_insert"
    /\ KeyPresent
    /\ mods = <<>>
    /\ arg # pre[to_owned(created.key)]
    /\ get(map, created.key) = <<pre[to_owned(created.key)]>>

\* C6: entry_ownable(k).and_modify(f).or_insert(v): on an absent k, v is
\* inserted under k and f is never invoked; on a k present with value w, f
\* is invoked once on the stored value, which becomes f(w), and v is neither
\* inserted nor stored.
C6_ModifyThenDefault ==
    (lastOp = "or_insert" /\ Len(mods) = 1) =>
        LET k == to_owned(created.key)
        IN  /\ KeyAbsent =>
                /\ mutatorCalls = 0
                /\ DOMAIN map = DOMAIN pre \cup {k}
                /\ map[k] = arg
                /\ \A x \in DOMAIN pre : map[x] = pre[x]
            /\ KeyPresent =>
                /\ mutatorCalls = 1
                /\ map = [pre EXCEPT ![k] = apply(mods[1], pre[k])]
                /\ toOwned = 0
                /\ ret = k

C6_Witness ==
    /\ lastOp = "or_insert"
    /\ Len(mods) = 1
    /\ KeyPresent
    /\ map[ret] = apply(mods[1], pre[ret])
    /\ map[ret] # pre[ret]
    /\ map[ret] # arg

\* C7: from an empty map, after *entry_ownable(w).or_insert(0) += 1 for each
\* word w of a list, the map holds for every word the number of times it
\* occurs in the list, and a key that never occurs is absent.
C7_OccurrenceCounting ==
    (pc = "idle" /\ i = Len(rhyme)) =>
        \A q \in BorrowedKeys \cup {NeverInserted} :
            get(map, q) = IF Occurrences(rhyme, q) = 0
                          THEN <<>>
                          ELSE <<Occurrences(rhyme, q)>>

C7_Witness ==
    /\ rhyme = <<"a", "b", "a", "a", "b", "c">>
    /\ i = 6
    /\ pc = "idle"
    /\ get(map, "a") = <<3>>
    /\ get(map, "b") = <<2>>
    /\ get(map, "c") = <<1>>
    /\ get(map, NeverInserted) = <<>>

\* C8: entry_ownable(k) alone, with the cursor alive or dropped without a
\* terminal call, leaves the map as it was and makes no owned key, for k
\* present or absent.
C8_LookupHasNoEffect ==
    /\ (mods = <<>> /\ (pc = "entry" \/ lastOp = "drop"))
        => (map = pre /\ toOwned = 0 /\ factoryCalls = 0 /\ mutatorCalls = 0)
    /\ (pc = "entry" \/ lastOp = "drop")
        => (DOMAIN map = DOMAIN pre /\ toOwned = 0)

C8_Witness ==
    /\ lastOp = "drop"
    /\ mods = <<>>
    /\ KeyAbsent
    /\ pre # EmptyMap
    /\ map = pre

\* C9: or_default leaves the same map and returns the same value as
\* or_insert_with(|| V::default()): on an absent key it stores the type's
\* default (None for Option<u32>, not zero), on a present key it returns the
\* stored value untouched.
C9_OrDefaultAsDefaultFactory ==
    [][(pc = "entry" /\ lastOp' = "or_default") =>
        LET o == or_insert_with(entry, map, [captured |-> Default(vtype)])
        IN  /\ map' = o.map
            /\ ret' = o.slot
            /\ toOwned' = toOwned + o.owned
            /\ entry.raw.tag = "Occupied" => (map' = map /\ ret' = entry.raw.slot)
            /\ (entry.raw.tag = "Vacant" /\ vtype = "opt") =>
                  (map'[ret'] = NoneVal /\ map'[ret'] # 0)
            /\ (entry.raw.tag = "Vacant" /\ vtype = "u32") => map'[ret'] = 0]_vars

C9_Witness ==
    /\ lastOp = "or_default"
    /\ KeyAbsent
    /\ vtype = "opt"
    /\ get(map, created.key) = <<NoneVal>>
    /\ pre # EmptyMap

\* C10: the cursor is Occupied exactly when its key was in the map at
\* creation, and and_modify, applied any number of times, hands back the
\* same classification, key and slot, invokes its mutator only when
\* Occupied, and leaves the map's key set as it was.
C10_ClassificationFixed ==
    pc = "entry" =>
        /\ entry.raw.tag \in {"Occupied", "Vacant"}
        /\ entry.raw.tag = "Occupied" <=> to_owned(entry.key) \in DOMAIN pre
        /\ entry.raw.tag = "Occupied" => entry.raw.slot = to_owned(entry.key)
        /\ entry = created
        /\ DOMAIN map = DOMAIN pre
        /\ mutatorCalls = IF entry.raw.tag = "Occupied" THEN Len(mods) ELSE 0
        /\ entry.raw.tag = "Vacant" => map = pre

C10_Witness ==
    /\ pc = "entry"
    /\ Len(mods) = MaxMods
    /\ entry.raw.tag = "Occupied"
    /\ map # pre
    /\ entry = created

====
